---------------------------- MODULE Spec2Model ----------------------------
(***************************************************************************)
(* A model of the separate-chaining HashMap of src/src/lib.rs and of its   *)
(* borrowing iterator HashMapIter.                                         *)
(*                                                                         *)
(* Vec indices are 0-based in the source; TLA+ sequences are 1-based, so   *)
(* the element the source calls v[i] is v[i + 1] here.  bucket_num and     *)
(* item_num keep the source's 0-based values.                              *)
(***************************************************************************)
EXTENDS Integers, Sequences, FiniteSets, TLC

\* Bounds of the model: hasher.finish() ranges over 0..MaxHash, and insert
\* stops adding keys once items has reached MaxItems (remove never lowers
\* items, so it would grow without end).
MaxHash == 3
MaxItems == 4

\* The keys (K) and values (V) the calls are made with.
Keys == {1, 2, 3}
Values == {1, 2}
\* Option::None of a value; values are positive.
None == 0
\* Option::None of a yielded pair; a pair is <<key, value>>.
NoPair == <<>>

VARIABLES
    buckets,    \* HashMap.buckets: Vec<Vec<(K,V)>>
    items,      \* HashMap.items: usize
    hash,       \* the value hasher.finish() gives for each key (K: Hash)
    iter,       \* the live HashMapIter borrowing the map, if any
    yielded,    \* the pairs the live iterator has returned so far
    last,       \* the last call, what it returned, and whether it resized
    panicked,   \* "none", or the panic that ended the program
    mapping     \* history: the value last inserted for a key and not removed

vars == <<buckets, items, hash, iter, yielded, last, panicked, mapping>>

NoIter == [alive |-> FALSE, bucket_num |-> 0, item_num |-> 0, done |-> FALSE]

Call(op, key, value, ret) == [op |-> op, key |-> key, value |-> value, ret |-> ret]

----------------------------------------------------------------------------
\* Pure helpers translated from the source.

\* fn bucket: (hasher.finish() % self.buckets.len() as u64) as usize.
\* The caller must not use it on an empty bucket array (division by zero).
bucket(bs, key) == hash[key] % Len(bs)

\* bucket.iter().position(|(ekey, _)| *ekey == key): 0-based index of the
\* first pair with that key, or -1 for None.
RECURSIVE positionFrom(_, _, _)
positionFrom(b, key, i) ==
    IF i >= Len(b) THEN -1
    ELSE IF b[i + 1][1] = key THEN i
    ELSE positionFrom(b, key, i + 1)

\* A scan that starts at the second pair of the bucket.
position_skips_first(b, key) == positionFrom(b, key, 1)

position(b, key) == positionFrom(b, key, 0)

\* A removal that always takes the last pair of the bucket (Vec::pop).
swap_remove_pops(b, i) == SubSeq(b, 1, Len(b) - 1)

\* A removal that cuts the bucket at index i (Vec::truncate).
swap_remove_truncates(b, i) == SubSeq(b, 1, i)

\* Vec::swap_remove(i): the last element takes the place of element i.
swap_remove(b, i) ==
    LET n == Len(b)
    IN  IF i = n - 1 THEN SubSeq(b, 1, n - 1)
        ELSE SubSeq([b EXCEPT ![i + 1] = b[n]], 1, n - 1)

\* buckets.iter_mut().flat_map(|bucket| bucket.drain(..)): all pairs, bucket
\* by bucket, each bucket front to back.
RECURSIVE flat_map(_)
flat_map(bs) ==
    IF bs = <<>> THEN <<>> ELSE Head(bs) \o flat_map(Tail(bs))

\* A loop that pushes every drained pair on bucket 0 (no rehash).
rehash_into_first(pairs, new_buckets) ==
    [new_buckets EXCEPT ![1] = @ \o pairs]

\* The loop body of resize: push each drained pair on its new bucket.
RECURSIVE rehash(_, _)
rehash(pairs, new_buckets) ==
    IF pairs = <<>> THEN new_buckets
    ELSE LET p == Head(pairs)
             b == hash[p[1]] % Len(new_buckets)
         IN  rehash(Tail(pairs),
                    [new_buckets EXCEPT ![b + 1] = Append(@, p)])

\* A growth by one bucket instead of a doubling.
targets_size_plus_one(bs) == Len(bs) + 1

\* fn resize: 0 -> 1 bucket, n -> 2n buckets, every pair rehashed.
targets_size(bs) == IF Len(bs) = 0 THEN 1 ELSE 2 * Len(bs)

\* new_buckets.extend((0..targets_size).map(|_| Vec::new()))
RECURSIVE empty_buckets(_)
empty_buckets(n) == IF n = 0 THEN <<>> ELSE Append(empty_buckets(n - 1), <<>>)

\* A resize that allocates the new buckets and leaves the old pairs behind.
resize_loses_pairs(bs) == empty_buckets(targets_size(bs))

resize(bs) == rehash(flat_map(bs), empty_buckets(targets_size(bs)))

\* A resize already at the threshold (>= for >).
needs_resize_at_threshold(bs, n) == bs = <<>> \/ n >= (3 * Len(bs)) \div 4

\* A threshold of 3 * len, the division by 4 forgotten.
needs_resize_no_division(bs, n) == bs = <<>> \/ n > 3 * Len(bs)

\* The condition of insert's first statement.
needs_resize(bs, n) == bs = <<>> \/ n > (3 * Len(bs)) \div 4

\* A replacement that hands the old value back without storing the new one.
replace_keeps_old(b, i, value) == b

\* mem::replace(evalue, value) on the pair at index i of the bucket.
replace(b, i, value) == [b EXCEPT ![i + 1][2] = value]

\* The value get returns, or None.
find(b, key) ==
    LET i == position(b, key) IN IF i = -1 THEN None ELSE b[i + 1][2]

\* What the buckets hold: the pairs, the keys, the number of pairs, the
\* number of pairs with a given key, and the value stored for a key.
Stored == {flat_map(buckets)[i] : i \in 1..Len(flat_map(buckets))}
StoredKeys == {p[1] : p \in Stored}
SumLen == Len(flat_map(buckets))
Entries(key) ==
    Cardinality({i \in 1..Len(flat_map(buckets)) : flat_map(buckets)[i][1] = key})
StoredValue(key) ==
    IF key \in StoredKeys THEN (CHOOSE p \in Stored : p[1] = key)[2] ELSE None

\* The keys inserted and not removed since, by the history of calls.
Inserted == {k \in Keys : mapping[k] # None}

----------------------------------------------------------------------------
\* HashMap::new(), with any deterministic hash for the key type.
Init ==
    /\ buckets = <<>>
    /\ items = 0
    /\ hash \in [Keys -> 0..MaxHash]
    /\ iter = NoIter
    /\ yielded = <<>>
    /\ last = Call("new", 0, None, None)
    /\ panicked = "none"
    /\ mapping = [k \in Keys |-> None]

Running == panicked = "none"

\* insert, lines 37-39: the bucket array after the resize, if one is due.
grown(bs, n) == IF needs_resize(bs, n) THEN resize(bs) ELSE bs

\* A lookup that always scans bucket 0.
scan_first_bucket(bs, key) == position(bs[1], key)

\* insert, lines 41-48: the index in its bucket of the pair with that key,
\* or -1.
scan(bs, key) == position(bs[bucket(bs, key) + 1], key)

\* A placement that puts a new pair at the front of its bucket.
placed_at_front(bs, key, value) ==
    IF scan(bs, key) # -1
    THEN [bs EXCEPT ![bucket(bs, key) + 1] = replace(@, scan(bs, key), value)]
    ELSE [bs EXCEPT ![bucket(bs, key) + 1] = <<<<key, value>>>> \o @]

\* insert, lines 44-50: the bucket array with the value replaced, or with
\* the pair pushed on its bucket.
placed(bs, key, value) ==
    IF scan(bs, key) # -1
    THEN [bs EXCEPT ![bucket(bs, key) + 1] = replace(@, scan(bs, key), value)]
    ELSE [bs EXCEPT ![bucket(bs, key) + 1] = Append(@, <<key, value>>)]

\* insert, lines 46 and 52: Some(old value) or None.
previous(bs, key) ==
    IF scan(bs, key) # -1
    THEN bs[bucket(bs, key) + 1][scan(bs, key) + 1][2]
    ELSE None

\* pub fn insert(&mut self, key, value) -> Option<V>
insert(key, value) ==
    /\ Running
    /\ ~iter.alive
    /\ items < MaxItems \/ key \in StoredKeys
    /\ buckets' = placed(grown(buckets, items), key, value)
    /\ items' = IF scan(grown(buckets, items), key) # -1 THEN items ELSE items + 1
    /\ last' = [op |-> "insert", key |-> key, value |-> value,
                ret |-> previous(grown(buckets, items), key),
                resized |-> needs_resize(buckets, items)]
    /\ mapping' = [mapping EXCEPT ![key] = value]
    /\ UNCHANGED <<hash, iter, yielded, panicked>>

\* pub fn remove(&mut self, key) -> Option<V>
remove(key) ==
    /\ Running
    /\ ~iter.alive
    /\ IF Len(buckets) = 0
       THEN \* hasher.finish() % 0 panics
            /\ panicked' = "rem_by_zero"
            /\ last' = Call("remove", key, None, None)
            /\ UNCHANGED <<buckets, mapping>>
       ELSE LET b == bucket(buckets, key)
                i == position(buckets[b + 1], key)
            IN  IF i = -1
                THEN /\ last' = Call("remove", key, None, None)
                     /\ UNCHANGED <<buckets, mapping, panicked>>
                ELSE /\ buckets' = [buckets EXCEPT ![b + 1] = swap_remove(@, i)]
                     /\ last' = Call("remove", key, None, buckets[b + 1][i + 1][2])
                     /\ mapping' = [mapping EXCEPT ![key] = None]
                     /\ UNCHANGED panicked
    /\ UNCHANGED <<items, hash, iter, yielded>>

\* An inverted emptiness test.
is_empty_inverted == items # 0

\* pub fn is_empty(&self) -> bool
is_empty_ret == items = 0

\* pub fn len(&self) -> usize
len_ret == items

\* pub fn get(&self, key) -> Option<&V>: whether the call reaches
\* hasher.finish() % 0, and the value it returns when it does not.
get_faults == ~is_empty_ret /\ Len(buckets) = 0

get_ret(key) ==
    IF is_empty_ret THEN None
    ELSE find(buckets[bucket(buckets, key) + 1], key)

\* pub fn contains_key(&self, key) -> bool
contains_key_faults == ~is_empty_ret /\ Len(buckets) = 0

contains_key_ret(key) ==
    IF is_empty_ret THEN FALSE
    ELSE position(buckets[bucket(buckets, key) + 1], key) # -1

\* The calls that take &self: they change nothing of the map, and end the
\* program when they panic.
get(key) ==
    /\ Running
    /\ panicked' = IF get_faults THEN "rem_by_zero" ELSE panicked
    /\ UNCHANGED <<buckets, items, hash, iter, yielded, last, mapping>>

contains_key(key) ==
    /\ Running
    /\ panicked' = IF contains_key_faults THEN "rem_by_zero" ELSE panicked
    /\ UNCHANGED <<buckets, items, hash, iter, yielded, last, mapping>>

len ==
    /\ Running
    /\ UNCHANGED vars

is_empty ==
    /\ Running
    /\ UNCHANGED vars

\* impl IntoIterator for &HashMap: a fresh cursor at (0, 0) that borrows the
\* map, so insert and remove wait until it is dropped.
into_iter ==
    /\ Running
    /\ ~iter.alive
    /\ iter' = [alive |-> TRUE, bucket_num |-> 0, item_num |-> 0, done |-> FALSE]
    /\ yielded' = <<>>
    /\ last' = Call("into_iter", 0, None, None)
    /\ UNCHANGED <<buckets, items, hash, panicked, mapping>>

\* A cursor that stops at an empty bucket instead of passing it.
skip_empty_stops(bs, bn) == bn

\* while buckets.get(self.bucket_num)?.is_empty() { self.bucket_num += 1 }:
\* the bucket_num the loop stops at (Len(bs) when get gives None).
RECURSIVE skip_empty(_, _)
skip_empty(bs, bn) ==
    IF bn >= Len(bs) THEN bn
    ELSE IF bs[bn + 1] = <<>> THEN skip_empty(bs, bn + 1)
    ELSE bn

\* fn next(&mut self) -> Option<&(K,V)>: the cursor after the call and the
\* pair returned; oob is the panic of buckets[self.bucket_num].
next_of(bs, bn, inum) ==
    IF bn >= Len(bs)
    THEN [oob |-> TRUE, bucket_num |-> bn, item_num |-> inum, ret |-> NoPair]
    ELSE LET wrap == inum >= Len(bs[bn + 1])
             i1 == IF wrap THEN 0 ELSE inum
             b1 == skip_empty(bs, IF wrap THEN bn + 1 ELSE bn)
         IN  IF b1 >= Len(bs) \/ i1 >= Len(bs[b1 + 1])
             THEN [oob |-> FALSE, bucket_num |-> b1, item_num |-> i1,
                   ret |-> NoPair]
             ELSE [oob |-> FALSE, bucket_num |-> b1, item_num |-> i1 + 1,
                   ret |-> bs[b1 + 1][i1 + 1]]

next ==
    /\ Running
    /\ iter.alive
    /\ LET r == next_of(buckets, iter.bucket_num, iter.item_num)
       IN  IF r.oob
           THEN /\ panicked' = "index_out_of_bounds"
                /\ last' = Call("next", 0, None, NoPair)
                /\ UNCHANGED <<iter, yielded>>
           ELSE /\ iter' = [alive |-> TRUE, bucket_num |-> r.bucket_num,
                            item_num |-> r.item_num,
                            done |-> iter.done \/ r.ret = NoPair]
                /\ yielded' = IF r.ret = NoPair THEN yielded
                              ELSE Append(yielded, r.ret)
                /\ last' = Call("next", 0, None, r.ret)
                /\ UNCHANGED panicked
    /\ UNCHANGED <<buckets, items, hash, mapping>>

\* The iterator goes out of scope and the borrow ends.
drop_iter ==
    /\ Running
    /\ iter.alive
    /\ iter' = NoIter
    /\ yielded' = <<>>
    /\ last' = Call("drop_iter", 0, None, None)
    /\ UNCHANGED <<buckets, items, hash, panicked, mapping>>

Next ==
    \/ \E k \in Keys, v \in Values : insert(k, v)
    \/ \E k \in Keys : remove(k)
    \/ \E k \in Keys : get(k)
    \/ \E k \in Keys : contains_key(k)
    \/ len
    \/ is_empty
    \/ into_iter
    \/ next
    \/ drop_iter

Spec == Init /\ [][Next]_vars

\* The runs that never call remove.
NextInserts ==
    \/ \E k \in Keys, v \in Values : insert(k, v)
    \/ \E k \in Keys : get(k)
    \/ \E k \in Keys : contains_key(k)
    \/ len
    \/ is_empty

SpecInserts == Init /\ [][NextInserts]_vars

\* The runs of tests::iterator: distinct keys are inserted, none is removed,
\* and the map is iterated.  The value of the i-th inserted pair is i, so
\* that a pair tells when it was inserted.
insert_next(key) ==
    /\ key \notin StoredKeys
    /\ insert(key, items + 1)

NextOrdered ==
    \/ \E k \in Keys : insert_next(k)
    \/ into_iter
    \/ next
    \/ drop_iter

SpecOrdered == Init /\ [][NextOrdered]_vars
----------------------------------------------------------------------------
\* The step is the call insert(k, v), or remove(k).
IsInsert(k, v) ==
    last'.op = "insert" /\ last'.key = k /\ last'.value = v /\ insert(k, v)
IsRemove(k) ==
    last'.op = "remove" /\ last'.key = k /\ remove(k)

\* C1: in every state reached by insert and remove calls, the value len()
\* returns equals the sum of the lengths of all buckets.
C1_LenIsSumOfBucketLengths == len_ret = SumLen

\* C2: a remove(k) that returns a value makes len() exactly one smaller
\* than it was immediately before the call.
C2_RemoveDecrementsLen ==
    [][\A k \in Keys :
         (IsRemove(k) /\ last'.ret # None) => len_ret' = len_ret - 1]_vars

\* C3: no sequence of public calls computes hash(key) mod bucket_count
\* while the bucket count is zero; remove on a new map returns absence.
C3_NoIndexWithZeroBuckets == panicked # "rem_by_zero"

\* C4: in every reachable state, zero buckets included, remove(k) of a key
\* that is not present returns absence and leaves len() and every stored
\* mapping unchanged.
C4_RemoveAbsentKeyIsNoOp ==
    [][\A k \in Keys :
         (IsRemove(k) /\ k \notin StoredKeys) =>
             /\ panicked' = "none"
             /\ last'.ret = None
             /\ len_ret' = len_ret
             /\ buckets' = buckets]_vars

\* C5: next() on an iterator over a map with zero buckets yields absence
\* at once, without faulting.
C5_IterationOfZeroBuckets ==
    (last.op = "next" /\ Len(buckets) = 0) =>
        (panicked = "none" /\ last.ret = NoPair)

\* C6: on a map with at least one bucket, a traversal with a fresh iterator
\* up to its first absence yields every stored pair exactly once and
\* nothing else: as many pairs as stored keys, all keys distinct, and the
\* keys are those inserted and not removed.
YieldedKeys == {yielded[i][1] : i \in 1..Len(yielded)}
YieldedPairs == {yielded[i] : i \in 1..Len(yielded)}

C6_TraversalYieldsStoredPairsOnce ==
    (iter.alive /\ iter.done) =>
        /\ Len(buckets) >= 1
        /\ Len(yielded) = Cardinality(StoredKeys)
        /\ Cardinality(YieldedKeys) = Len(yielded)
        /\ YieldedKeys = Inserted
        /\ YieldedPairs = Stored
        /\ \A k \in YieldedKeys : <<k, mapping[k]>> \in YieldedPairs

C6_Witness ==
    /\ iter.alive /\ iter.done /\ panicked = "none"
    /\ Len(yielded) >= 2
    /\ \E i \in 1..Len(buckets) : buckets[i] = <<>>
    /\ \E i \in 1..Len(buckets) : Len(buckets[i]) >= 2
    /\ items > SumLen

\* C7: after insert calls only, len() is the number of distinct keys
\* inserted; inserting a key that is already present does not raise it.
C7_LenCountsDistinctKeys == len_ret = Cardinality(Inserted)

C7_Witness ==
    /\ last.op = "insert" /\ last.ret # None
    /\ len_ret = 2
    /\ Len(buckets) >= 2

\* C8: after insert(k, v), get(k) returns v and contains_key(k) returns
\* true for as long as k is neither removed nor inserted again, whatever
\* happens to other keys and however often the map is resized.
C8_GetReturnsInsertedValue ==
    \A k \in Keys :
        mapping[k] # None =>
            /\ ~get_faults /\ ~contains_key_faults
            /\ get_ret(k) = mapping[k]
            /\ contains_key_ret(k)

C8_Witness ==
    /\ last.op = "remove" /\ last.ret # None
    /\ Len(buckets) >= 4
    /\ \E k \in Keys : mapping[k] # None /\ k # last.key /\ get_ret(k) = mapping[k]

\* C9: insert(k, v2) where k is mapped to v1 returns v1, makes get(k)
\* return v2 and keeps exactly one entry for k; insert(k, v) where k is
\* not present returns absence.
C9_InsertReplacesAndReturnsOld ==
    [][\A k \in Keys, v \in Values :
         IsInsert(k, v) =>
             /\ last'.ret = StoredValue(k)
             /\ get_ret(k)' = v
             /\ Entries(k)' = 1]_vars

C9_Witness ==
    /\ last.op = "insert"
    /\ last.ret # None /\ last.ret # last.value
    /\ get_ret(last.key) = last.value
    /\ SumLen >= 2

\* C10: where k is mapped to v, remove(k) returns v, and immediately
\* afterwards get(k) returns absence and contains_key(k) returns false.
C10_RemoveReturnsValueAndUnmaps ==
    [][\A k \in Keys :
         (IsRemove(k) /\ StoredValue(k) # None) =>
             /\ last'.ret = StoredValue(k)
             /\ panicked' = "none"
             /\ get_ret(k)' = None
             /\ ~contains_key_ret(k)']_vars

C10_Witness ==
    /\ last.op = "remove" /\ last.ret # None
    /\ SumLen >= 2
    /\ get_ret(last.key) = None
    /\ ~contains_key_ret(last.key)

\* C11: a resize inside insert keeps every existing mapping: each other key
\* mapped to v before the insert is still mapped to v by get afterwards,
\* and the resize step itself leaves the multiset of stored pairs as it was.
Count(pairs, p) == Cardinality({i \in 1..Len(pairs) : pairs[i] = p})

C11_ResizeKeepsMappings ==
    [][\A k \in Keys, v \in Values :
         (IsInsert(k, v) /\ needs_resize(buckets, items)) =>
             /\ \A j \in Keys \ {k} :
                  StoredValue(j) # None => get_ret(j)' = StoredValue(j)
             /\ \A p \in Keys \X Values :
                  Count(flat_map(resize(buckets)), p) = Count(flat_map(buckets), p)
             /\ Len(flat_map(resize(buckets))) = Len(flat_map(buckets))]_vars

C11_Witness ==
    /\ last.op = "insert" /\ last.resized
    /\ Len(buckets) >= 4
    /\ SumLen >= 3
    /\ \E i \in 1..Len(buckets) : i >= 2 /\ Len(buckets[i]) >= 1

\* C12: in every state reached by insert and remove calls, each stored key
\* occurs exactly once in the whole map, in the bucket whose index is
\* hash(key) mod the current bucket count.
C12_OneEntryInItsBucket ==
    \A i \in 1..Len(buckets) :
        \A j \in 1..Len(buckets[i]) :
            /\ bucket(buckets, buckets[i][j][1]) = i - 1
            /\ Entries(buckets[i][j][1]) = 1

C12_Witness ==
    /\ Len(buckets) >= 4
    /\ SumLen >= 3
    /\ \E i \in 1..Len(buckets) : Len(buckets[i]) >= 2
    /\ \E i \in 1..Len(buckets) : i >= 2 /\ Len(buckets[i]) >= 1
    /\ items > SumLen

\* C13: on a map whose len() is zero, a new map with zero buckets included,
\* get(k) returns absence and contains_key(k) returns false for every key,
\* without faulting.
C13_ReadsOfEmptyMap ==
    len_ret = 0 =>
        \A k \in Keys :
            /\ ~get_faults /\ ~contains_key_faults
            /\ get_ret(k) = None
            /\ ~contains_key_ret(k)

C13_Witness ==
    /\ len_ret = 0 /\ Len(buckets) = 0 /\ panicked = "none"
    /\ \A k \in Keys : get_ret(k) = None /\ ~contains_key_ret(k)

C15_ExhaustedIteratorStaysExhausted ==
    (iter.alive /\ iter.done /\ last.op = "next") =>
        (panicked = "none" /\ last.ret = NoPair)

\* C16: the bucket count never decreases and changes only during insert,
\* from 0 to 1 or from n to 2n; get, contains_key, remove, len, is_empty and
\* iteration leave it unchanged.
C16_BucketCountOnlyDoublesInInsert ==
    [][Len(buckets') # Len(buckets) =>
         /\ last'.op = "insert"
         /\ insert(last'.key, last'.value)
         /\ \/ Len(buckets) = 0 /\ Len(buckets') = 1
            \/ Len(buckets) > 0 /\ Len(buckets') = 2 * Len(buckets)]_vars

C16_Witness ==
    /\ last.op = "insert" /\ last.resized
    /\ Len(buckets) >= 8

\* C17: insert resizes, before it looks up or places the key, exactly when
\* the bucket array is empty or 4 * items > 3 * bucket count, and doubles at
\* most once per call, also when the key is already present.
C17_InsertResizesExactlyOverThreshold ==
    [][\A k \in Keys, v \in Values :
         IsInsert(k, v) =>
             /\ (Len(buckets') # Len(buckets)) <=>
                    (Len(buckets) = 0 \/ 4 * items > 3 * Len(buckets))
             /\ Len(buckets') \in {Len(buckets), 1, 2 * Len(buckets)}
             /\ \E j \in 1..Len(buckets'[(hash[k] % Len(buckets')) + 1]) :
                  buckets'[(hash[k] % Len(buckets')) + 1][j] = <<k, v>>]_vars

C17_Witness ==
    /\ last.op = "insert" /\ last.resized /\ last.ret # None
    /\ Len(buckets) >= 4

\* C18: remove(k) and insert(k, v) change nothing about any other key j:
\* get(j) and contains_key(j) return after the call what they returned
\* before it.
C18_OtherKeysUntouched ==
    [][\A k \in Keys :
         (IsRemove(k) \/ \E v \in Values : IsInsert(k, v)) =>
             \A j \in Keys \ {k} :
                 /\ get_ret(j)' = get_ret(j)
                 /\ contains_key_ret(j)' = contains_key_ret(j)]_vars

C18_Witness ==
    /\ last.op = "remove" /\ last.ret # None
    /\ \E i \in 1..Len(buckets) :
         /\ Len(buckets[i]) >= 2
         /\ bucket(buckets, last.key) = i - 1
         /\ buckets[i][1][1] > buckets[i][2][1]
    /\ \A j \in Keys \ {last.key} : get_ret(j) = mapping[j]

\* C19: after at least one insert the bucket count n is at least 1 and
\* items <= floor(3n/4) + 1, and so is the number of pairs in the buckets.
C19_LoadBoundAfterDoubling ==
    (last.op = "insert" \/ items > 0 \/ Len(buckets) > 0) =>
        /\ Len(buckets) >= 1
        /\ items <= (3 * Len(buckets)) \div 4 + 1
        /\ SumLen <= (3 * Len(buckets)) \div 4 + 1

C19_Witness ==
    /\ last.op = "insert" /\ last.resized
    /\ Len(buckets) >= 2
    /\ items = (3 * Len(buckets)) \div 4 + 1
    /\ SumLen = items

=============================================================================
